---- MODULE Spec2Model ----
(***************************************************************************)
(* Store-and-forward synchronization engine of the edge gateway:           *)
(* the durable queue (database.rs), the cloud synchronizer (cloud_sync.rs),*)
(* the two ingestion adapters (handlers/sensor.rs, mqtt_handler.rs) and    *)
(* the task set started by bootstrap (app.rs).                             *)
(*                                                                         *)
(* The synchronizer instance is shared as Arc<Mutex<CloudSync>>            *)
(* (startup/state.rs) and sync_data takes &mut self, so every call of      *)
(* sync_data on the shared instance runs with the guard held: the task an  *)
(* adapter spawns first waits for the guard, the periodic task takes it    *)
(* once (app.rs:34) and keeps it for the whole of start_sync_task.         *)
(***************************************************************************)
EXTENDS Integers, Sequences, FiniteSets, TLC

\* ---------------------------------------------------------------- bounds
\* number of records the model lets the pipeline create
MaxRecords == 3
\* cloud_sync_batch_size (config.rs:71, a configured value), scaled down
BatchSize == 2
\* number of threshold-triggered tasks the model lets the adapters spawn
MaxSpawn == 2
\* capacity of the request channel of the outbound client
\* (AsyncClient::new(mqttoptions, 100), cloud_sync.rs:43), scaled down
ChannelCap == 1
\* ticks of the interval that may be owed to the periodic task at a time
MaxOwed == 1
\* largest batch an adapter call carries in the model
MaxBatch == 2

\* ticks of the wall clock per second: timestamps are finer than the whole
\* seconds SQLite's datetime() compares
TicksPerSec == 2
\* seconds in a day, scaled down
SecsPerDay == 1
\* last tick of the wall clock
MaxTime == 5
\* rows the direct calls of the Database methods work on
MaxRows == 2

\* SensorDataBatch: #[validate(length(min = 1, max = 100))]: the upper limit
\* of a batch, scaled down so that a batch can exceed it
MaxBatchLen == 2

\* longest metric list of a reading; lists of that length are drawn from the
\* metrics with a NaN or infinite value, shorter ones from all metrics
MaxMetrics == 3

\* ------------------------------------------------------ program constants
\* SensorDataBatch: #[validate(length(min = 1, ..))]
MinBatchLen == 1

\* ------------------------------------------------------------ task names
\* task 0 is the periodic task of bootstrap, 1..MaxSpawn are the tasks
\* spawned by the adapters when the threshold is reached
Periodic == 0
Triggered == 1..MaxSpawn
Tasks == {Periodic} \cup Triggered
NoTask == -1

\* adapter call slots: one in-flight call of the request/response listener
\* and the broker-subscription loop (one message at a time)
Calls == {"http", "mqtt"}
Kinds == {"single", "batch"}

VARIABLES
    db,         \* sensor_readings: set of rows [id, ts, synced]
    nextId,     \* next record id / gateway timestamp the pipeline hands out
    task,       \* per sync task: position in sync_data and its locals
    holder,     \* owner of the Mutex<CloudSync> guard, NoTask when free
    client,     \* CloudSync.mqtt_client: "none" | "ready"
    chan,       \* request channel of the outbound client (ids queued)
    delivered,  \* ids the remote broker has received
    owed,       \* interval ticks elapsed and not yet taken by the loop
    call,       \* per adapter slot: the call in progress
    conns,      \* outbound clients (and event loops) created so far
    now,        \* wall clock, in ticks of 1/TicksPerSec second
    tx,         \* the open insert_batch transaction, if any
    ret,        \* what the last direct call of a Database method returned
    proc,       \* bootstrap and its two long-running tasks
    edge        \* the reading process_reading was last called on, and its result

\* the variables only the direct calls of the Database methods change
qvars == <<now, tx, ret>>

\* the variables of the program's lifecycle and of the enrichment pipeline
evars == <<proc, edge>>

vars == <<db, nextId, task, holder, client, chan, delivered, owed, call,
          conns, now, tx, ret, proc, edge>>

\* ------------------------------------------------------------- the queue
Ids == 1..MaxRecords

\* SQL NULL in last_sync_attempt
Null == -1

\* f32 values: finite ones stand as integers, NaN and the two infinities as
\* themselves
Num(v) == [k |-> "num", v |-> v]
NaN == [k |-> "nan", v |-> 0]
PosInf == [k |-> "inf", v |-> 1]
NegInf == [k |-> "inf", v |-> -1]

\* serde_json::to_string of an f32: a finite value is written as a number,
\* NaN and the infinities are written as null
to_json(x) == IF x.k = "num" THEN [t |-> "number", v |-> x.v] ELSE [t |-> "null", v |-> 0]
\* serde_json::from_str for an f32: a number is read, null is an error
\* (invalid type: null, expected f32)
from_str(j) == IF j.t = "number" THEN [ok |-> TRUE, value |-> Num(j.v)]
               ELSE [ok |-> FALSE, value |-> NaN]

\* the strings a header field takes in the model: empty, blank, and texts
Devices == {"", " ", "a", "b"}
Locations == {"", " ", "x"}
\* str::len and str::trim on those strings
StrLen(str) == IF str = "" THEN 0 ELSE 1
Trim(str) == IF str = " " THEN "" ELSE str

\* SensorDataInput as far as the adapters look at it: the two header fields
\* that are validated and the number of metrics.  sensor_id is the field the
\* broker adapter assigns the topic's device to; SensorDataInput (models.rs)
\* has header.device_id and no sensor_id, and nothing reads it afterwards.
\* value is the value of its metrics.
Reading(dev, loc, nm) ==
    [device_id |-> dev, location |-> loc, nmetrics |-> nm, sensor_id |-> "",
     value |-> Num(20)]

\* a reading that passes every validation
GoodReading == Reading("a", "x", 1)
\* a reading without metrics
NoMetricReading == Reading("a", "x", 0)
\* a valid reading whose metric is infinite: a JSON number beyond the f32
\* range, such as 1e39, is deserialized to f32::INFINITY
InfReading == [GoodReading EXCEPT !.value = PosInf]

\* the readings a sensor sends to the adapters: the two above, and one
\* for each way a header field can be empty, blank or another device's
Readings ==
    {GoodReading, NoMetricReading, Reading("b", "x", 1), Reading("", "x", 1),
     Reading(" ", "x", 1), Reading("a", "", 1), Reading("a", " ", 1)}

\* a freshly inserted row: synced and sync_attempts default to 0,
\* last_sync_attempt to NULL;
\* device_id and location are bound from data.header, metrics_count from
\* data.metadata
NewRow(i, at) ==
    [id |-> i, ts |-> at, synced |-> FALSE, sync_attempts |-> 0,
     last_sync_attempt |-> Null,
     device_id |-> GoodReading.device_id, location |-> GoodReading.location,
     metrics_count |-> GoodReading.nmetrics,
     metrics_json |-> to_json(GoodReading.value)]

\* the rows of the pipeline: the n-th record gets the n-th timestamp
Row(i) == NewRow(i, i)

AllRows(d) == d

\* WHERE synced = 0
PendingRows(d) == {r \in d : ~r.synced}

\* SELECT COUNT(*) FROM sensor_readings WHERE synced = 0
count_pending_sync(d) == Cardinality(PendingRows(d))

LowestIdRow(rows) == CHOOSE r \in rows : \A q \in rows : r.id <= q.id

\* the first row of ORDER BY gateway_timestamp ASC (any one of the oldest)
OldestRow(rows) == CHOOSE r \in rows : \A q \in rows : r.ts <= q.ts

RECURSIVE OrderByTs(_)
OrderByTs(rows) ==
    IF rows = {} THEN <<>>
    ELSE LET r == OldestRow(rows) IN <<r.id>> \o OrderByTs(rows \ {r})

Take(s, n) == IF Len(s) <= n THEN s ELSE SubSeq(s, 1, n)

\* SELECT * WHERE synced = 0 ORDER BY gateway_timestamp ASC LIMIT ?
get_pending_sync(d, limit) == Take(OrderByTs(PendingRows(d)), limit)

SeqToSet(s) == {s[i] : i \in 1..Len(s)}

\* row_to_processed_data(row)?: the metrics (and the statistics, which hold
\* the same values) are parsed back from their JSON text
row_to_processed_data(row) == from_str(row.metrics_json)

\* for row in rows { results.push(self.row_to_processed_data(row)?) }: the
\* rows selected all convert, or get_pending_sync returns the error
rows_convert(d, ids) == \A r \in d : r.id \in SeqToSet(ids) => row_to_processed_data(r).ok

\* datetime(..) and CURRENT_TIMESTAMP: a time of day cut to whole seconds
Seconds(t) == t \div TicksPerSec

\* UPDATE sensor_readings SET synced = 1, last_sync_attempt = CURRENT_TIMESTAMP
\* WHERE id = ?   (for each id, in one transaction)
mark_as_synced(d, ids, at) ==
    {IF r.id \in ids
     THEN [r EXCEPT !.synced = TRUE, !.last_sync_attempt = Seconds(at)]
     ELSE r : r \in d}

mark_as_synced_partial(d, ids, at) ==
    IF ids = {} THEN d
    ELSE mark_as_synced(d, {CHOOSE i \in ids : \A j \in ids : i <= j}, at)

\* mark_as_synced returns at a `?` before tx.commit(): the transaction is
\* dropped, which rolls back the updates it had made
mark_as_synced_err(d, ids, at) == d

\* the row of the processed reading r the pipeline gave the id i
StoredRow(i, r) ==
    [Row(i) EXCEPT !.device_id = r.device_id, !.location = r.location,
                   !.metrics_count = r.nmetrics,
                   !.metrics_json = to_json(r.value)]

\* INSERT of the rows of one call (insert_reading / insert_batch); the
\* readings of a batch are alike in the model
insert_rows(d, ids, r) == d \cup {StoredRow(i, r) : i \in ids}

\* no insert_batch transaction is open / no Database method called yet
NoTx == [open |-> FALSE, rows |-> {}, buf |-> {}]
NoRet == [op |-> "none", ok |-> TRUE, val |-> 0, ids |-> {}]

\* bootstrap is at its select!, the listener and the broker loop are running
Started == [http |-> "running", mqtt |-> "running", main |-> "select"]
\* process_reading has not been called
NoEdge == [called |-> FALSE]

\* ------------------------------------------------------------ sync tasks
IdleTask(p) ==
    [pc |-> p, pending_data |-> <<>>, idx |-> 0, failed_ids |-> {},
     sent_count |-> 0, okSent |-> {}, outcome |-> "none"]

\* a slot between calls remembers how its last call ended
\* ("ignored": a broker message on a topic the handler does not process)
Responses == {"success", "validation_error", "server_error", "error", "ignored"}
SlotFreeUnlessError(c) == call[c].pc \in {"idle", "success", "ignored"}
\* the listener takes the next request, the broker loop is at
\* eventloop.poll(): whatever the last call returned was logged or sent
SlotFree(c) == call[c].pc \in {"idle"} \cup Responses

Ended(r) == [pc |-> r, acked |-> FALSE]

Init ==
    /\ db = {}
    /\ nextId = 1
    /\ task = [t \in Tasks |-> IF t = Periodic THEN IdleTask("start")
                                               ELSE IdleTask("unspawned")]
    /\ holder = NoTask
    /\ client = "none"
    /\ chan = <<>>
    /\ delivered = {}
    /\ owed = 0
    /\ call = [c \in Calls |-> Ended("idle")]
    /\ conns = 0
    /\ now = 0
    /\ tx = NoTx
    /\ ret = NoRet
    /\ proc = Started
    /\ edge = NoEdge

\* ------------------------------------------------- the guard (tokio Mutex)
LockFreeAlways == TRUE

\* cloud_sync.lock().await completes only while no other task owns the guard
LockFree == holder = NoTask

\* bootstrap's background task: takes the guard, then start_sync_task creates
\* the interval (whose first tick completes immediately) and enters the loop
PeriodicLock ==
    /\ task[Periodic].pc = "start"
    /\ LockFree
    /\ holder' = Periodic
    /\ owed' = 1
    /\ task' = [task EXCEPT ![Periodic].pc = "tick"]
    /\ UNCHANGED <<db, nextId, client, chan, delivered, call, conns, qvars, evars>>

\* the task an adapter spawned: it gets the synchronizer through the guard
TriggeredLock(t) ==
    /\ t \in Triggered
    /\ task[t].pc = "waitlock"
    /\ LockFree
    /\ holder' = t
    /\ task' = [task EXCEPT ![t].pc = "fetch"]
    /\ UNCHANGED <<db, nextId, client, chan, delivered, owed, call, conns, qvars, evars>>

\* one period of the interval elapses (tokio interval, missed ticks burst)
TimerElapse ==
    /\ task[Periodic].pc \notin {"start"}
    /\ owed < MaxOwed
    /\ owed' = owed + 1
    /\ UNCHANGED <<db, nextId, task, holder, client, chan, delivered, call, conns, qvars, evars>>

\* interval.tick().await returns: the loop calls sync_data (the locals of
\* the previous call are gone)
PeriodicTick ==
    /\ task[Periodic].pc = "tick"
    /\ owed > 0
    /\ owed' = owed - 1
    /\ task' = [task EXCEPT ![Periodic] = IdleTask("fetch")]
    /\ UNCHANGED <<db, nextId, holder, client, chan, delivered, call, conns, qvars, evars>>

\* ------------------------------------------------------------- sync_data
AfterPeriodicCycleStopOnErr(outcome) == IF outcome = "ok" THEN "tick" ELSE "stopped"

\* position of the periodic loop after sync_data returned:
\* `if let Err(e) = .. { tracing::error!(..) }` and back to interval.tick()
AfterPeriodicCycle(outcome) == "tick"

ReturnPcConnects(t, outcome) == "init"

\* where a task is once its sync_data call has returned with `outcome`
ReturnPc(t, outcome) == IF t = Periodic THEN AfterPeriodicCycle(outcome) ELSE "ret"

AfterFetchAlwaysInit == "init"

\* position after the fetch: straight to the loop when the client exists
AfterFetchPc == IF client = "none" THEN "init" ELSE "send"

\* get_pending_sync(batch_size).await? ; empty => Ok(())
\* ok = FALSE: the query fails; the call also fails if a selected row does
\* not convert
Fetch(t, ok) ==
    /\ task[t].pc = "fetch"
    /\ LET pending_data == get_pending_sync(db, BatchSize) IN
       task' = [task EXCEPT ![t] =
           IF ~ok \/ ~rows_convert(db, pending_data) THEN [@ EXCEPT !.pc = ReturnPc(t, "fetch_err"), !.outcome = "fetch_err"]
           ELSE IF pending_data = <<>> THEN [@ EXCEPT !.pc = ReturnPc(t, "ok"), !.outcome = "ok"]
           ELSE [@ EXCEPT !.pc = AfterFetchPc, !.pending_data = pending_data, !.idx = 1]]
    /\ UNCHANGED <<db, nextId, holder, client, chan, delivered, owed, call, conns, qvars, evars>>

\* if self.mqtt_client.is_none() { self.mqtt_client = Some(init_mqtt_client()) }
\* init_mqtt_client creates the client and its request channel, spawns the
\* event loop and returns Ok after a 500 ms sleep, connected or not
InitClient(t) ==
    /\ task[t].pc = "init"
    /\ client' = "ready"
    /\ conns' = conns + 1
    /\ task' = [task EXCEPT ![t].pc = "send"]
    /\ UNCHANGED <<db, nextId, holder, chan, delivered, owed, call, qvars, evars>>

AfterLoopRetry(t, sent_count) == IF sent_count > 0 THEN "mark" ELSE "send"

\* position after the last sleep of the loop: the mark step is reached only
\* if sent_count > 0, otherwise the function falls through to the bail
AfterLoopPc(t, sent_count) == IF sent_count > 0 THEN "mark" ELSE ReturnPc(t, "bail")

\* client.publish(..).await: Ok once the request is queued in the client's
\* request channel; it waits while the channel is full
PublishReady == Len(chan) < ChannelCap

\* one turn of `for data in &pending_data`: send_to_cloud_mqtt, then the
\* 10 ms sleep. ok = FALSE is a publish (or serialization) error.
Send(t, ok) ==
    /\ task[t].pc = "send"
    /\ LET me == task[t]
           id == me.pending_data[me.idx]
           last == me.idx = Len(me.pending_data)
           sent == IF ok THEN me.sent_count + 1 ELSE me.sent_count
           failed == IF ok THEN me.failed_ids ELSE me.failed_ids \cup {id}
       IN
       /\ ok => PublishReady
       /\ chan' = IF ok THEN Append(chan, id) ELSE chan
       /\ task' = [task EXCEPT ![t] =
              [me EXCEPT !.sent_count = sent,
                         !.failed_ids = failed,
                         !.okSent = IF ok THEN @ \cup {id} ELSE @,
                         !.idx = IF last THEN @ ELSE @ + 1,
                         !.pc = IF last THEN AfterLoopPc(t, sent) ELSE "send",
                         !.outcome = IF last /\ sent = 0 THEN "bail" ELSE @]]
    /\ UNCHANGED <<db, nextId, holder, client, delivered, owed, call, conns, qvars, evars>>

successful_ids_all(pending_data, failed_ids) == SeqToSet(pending_data)

\* pending_data.iter().filter(|d| !failed_ids.contains(&d.id)).map(|d| d.id)
successful_ids(pending_data, failed_ids) == SeqToSet(pending_data) \ failed_ids

CycleResultAlwaysOk(failed_ids) == "ok"

\* the value sync_data returns after the mark step committed
CycleResult(failed_ids) == IF failed_ids # {} THEN "bail" ELSE "ok"

\* db.mark_as_synced(&successful_ids).await? ; then bail if failed_ids is
\* not empty, else Ok(()).  ok = FALSE: the transaction fails, nothing marked.
Mark(t, ok) ==
    /\ task[t].pc = "mark"
    /\ LET me == task[t]
           ids == successful_ids(me.pending_data, me.failed_ids)
           res == IF ok THEN CycleResult(me.failed_ids) ELSE "mark_err"
       IN
       /\ db' = IF ok THEN mark_as_synced(db, ids, now) ELSE mark_as_synced_err(db, ids, now)
       /\ task' = [task EXCEPT ![t] =
              [me EXCEPT !.pc = ReturnPc(t, res), !.outcome = res]]
    /\ UNCHANGED <<nextId, holder, client, chan, delivered, owed, call, conns, qvars, evars>>

\* the spawned task ends: its result is logged or dropped, the guard is
\* released and the task is gone
TriggeredReturn(t) ==
    /\ t \in Triggered
    /\ task[t].pc = "ret"
    /\ task' = [task EXCEPT ![t] = IdleTask("unspawned")]
    /\ holder' = NoTask
    /\ UNCHANGED <<db, nextId, client, chan, delivered, owed, call, conns, qvars, evars>>

\* ------------------------------------------- outbound event loop and broker
\* the loop spawned by init_mqtt_client: poll() hands the oldest queued
\* request to the broker when the broker takes it; while the broker is
\* unreachable poll() fails, the loop sleeps 5 s and polls again
EventLoopPoll ==
    /\ client = "ready"
    /\ chan # <<>>
    /\ delivered' = delivered \cup {Head(chan)}
    /\ chan' = Tail(chan)
    /\ UNCHANGED <<db, nextId, task, holder, client, owed, call, conns, qvars, evars>>

\* ----------------------------------------------------- ingestion adapters
\* the device segment of the topic a message arrives on (sensors/<device>/data)
TopicDevice == "a"

\* the derived Validate of SensorDataInput: header.device_id and
\* header.location of length >= 1 (their upper limits of 50 and 200 are out
\* of reach of the model's strings), metrics of length >= 1
validate_input(r) ==
    StrLen(r.device_id) >= 1 /\ StrLen(r.location) >= 1 /\ r.nmetrics >= 1

\* payload.validate(): SensorDataInput needs a structurally valid header and
\* at least one metric; SensorDataBatch needs 1..=100 valid readings
Validate(kind, n, structOk) ==
    IF kind = "single" THEN structOk
    ELSE n >= MinBatchLen /\ n <= MaxBatchLen /\ structOk

\* number of readings a call of the given kind may carry
Sizes(kind) == IF kind = "single" THEN {1} ELSE 0..(MaxBatchLen + 1)

\* process_reading / process_batch: one fresh id and timestamp per reading
Processed(n) == nextId..(nextId + n - 1)

StorageErrorStillAcks(c) == IF c = "http" THEN "server_error" ELSE "ack"
\* what the caller gets when a storage operation of its call fails:
\* AppError (500) on the request/response path, Err logged on the broker path
StorageError(c) == IF c = "http" THEN "server_error" ELSE "error"

\* ingest_sensor_data / ingest_batch_data up to the return of the insert:
\* validate (error 400 to the caller), the enrichment pipeline, then
\* db.insert_reading(..).await? / db.insert_batch(..).await?
\* r: the reading (every reading of a batch); ok = FALSE: the insert (one
\* statement or one transaction) fails
HttpIngest(kind, n, r, ok) ==
    /\ SlotFree("http")
    /\ n \in Sizes(kind)
    /\ IF ~Validate(kind, n, validate_input(r))
       THEN /\ call' = [call EXCEPT !["http"] = Ended("validation_error")]
            /\ UNCHANGED <<db, nextId>>
       ELSE /\ nextId + n - 1 <= MaxRecords
            /\ nextId' = nextId + n
            /\ db' = IF ok THEN insert_rows(db, Processed(n), r) ELSE db
            /\ call' = [call EXCEPT !["http"] =
                   IF ok THEN Ended("count") ELSE Ended(StorageError("http"))]
    /\ UNCHANGED <<task, holder, client, chan, delivered, owed, conns, qvars, evars>>

AfterParseErrorAcks == "ack"
\* serde_json::from_slice(payload)?: the error leaves process_single_data /
\* process_batch_data at once and the loop logs it
AfterParseError == "error"

\* input.sensor_id = sensor_id.to_string(): the topic's device goes to
\* sensor_id; header.device_id is left as the payload had it
WithTopicDevice(r) == [r EXCEPT !.sensor_id = TopicDevice]

\* process_single_data / process_batch_data up to the return of the insert:
\* serde_json::from_slice(payload)? (the error is logged by the loop), the
\* assignment of the topic's device, the enrichment pipeline, then the
\* insert; no validation on this path
MqttIngest(kind, n, parseOk, r, ok) ==
    /\ SlotFree("mqtt")
    /\ n \in Sizes(kind)
    /\ IF ~parseOk
       THEN /\ call' = [call EXCEPT !["mqtt"] = Ended(AfterParseError)]
            /\ UNCHANGED <<db, nextId>>
       ELSE /\ nextId + n - 1 <= MaxRecords
            /\ nextId' = nextId + n
            /\ db' = IF ok THEN insert_rows(db, Processed(n), WithTopicDevice(r)) ELSE db
            /\ call' = [call EXCEPT !["mqtt"] =
                   IF ok THEN Ended("ack") ELSE Ended(StorageError("mqtt"))]
    /\ UNCHANGED <<task, holder, client, chan, delivered, owed, conns, qvars, evars>>

\* process_message on a topic with fewer than three segments or with a type
\* other than data and batch: a warning, Ok(()), nothing processed
MqttSkip ==
    /\ SlotFree("mqtt")
    /\ call' = [call EXCEPT !["mqtt"] = Ended("ignored")]
    /\ UNCHANGED <<db, nextId, task, holder, client, chan, delivered, owed, conns, qvars, evars>>

\* eventloop.poll() returns Err: the error is logged and the loop sleeps 5 s
MqttPollError ==
    /\ SlotFree("mqtt")
    /\ call' = [call EXCEPT !["mqtt"] = Ended("sleep")]
    /\ UNCHANGED <<db, nextId, task, holder, client, chan, delivered, owed, conns, qvars, evars>>

\* the sleep is over and the loop polls again
MqttSleepDone ==
    /\ call["mqtt"].pc = "sleep"
    /\ call' = [call EXCEPT !["mqtt"] = Ended("idle")]
    /\ UNCHANGED <<db, nextId, task, holder, client, chan, delivered, owed, conns, qvars, evars>>

AfterAckEscalates(ok) == IF ok THEN "count" ELSE "error"
\* the result of the publish is discarded (let _ = ..): the handler goes on
\* to the pending count whether the acknowledgment went out or not
AfterAckPc(ok) == "count"

\* let _ = client.publish(response_topic, QoS::AtMostOnce, ..).await
MqttAck(ok) ==
    /\ call["mqtt"].pc = "ack"
    /\ call' = [call EXCEPT !["mqtt"] = [@ EXCEPT !.acked = ok, !.pc = AfterAckPc(ok)]]
    /\ UNCHANGED <<db, nextId, task, holder, client, chan, delivered, owed, conns, qvars, evars>>

ThresholdExceeded(pending_count) == pending_count > BatchSize

\* pending_count >= config.cloud_sync_batch_size
ThresholdReached(pending_count) == pending_count >= BatchSize

\* the tasks tokio::spawn creates for one threshold crossing
FreeTasks == {t \in Triggered : task[t].pc = "unspawned"}
NewTask == CHOOSE t \in FreeTasks : \A u \in FreeTasks : t <= u

AfterSpawnAwaitsSync == "awaitsync"

\* how the call ends once the threshold test (and the spawn, if any) is
\* done: the handler does not await the spawned task, it returns its response
AfterSpawnPc == "success"

\* count_pending_sync().await?, the threshold test, tokio::spawn of the sync
\* task, and the return of the call (no await after the count)
CountSpawn(c, ok) ==
    /\ call[c].pc = "count"
    /\ IF ~ok
       THEN /\ call' = [call EXCEPT ![c] = Ended(StorageError(c))]
            /\ UNCHANGED task
       ELSE IF ThresholdReached(count_pending_sync(db))
            THEN /\ FreeTasks # {}
                 /\ task' = [task EXCEPT ![NewTask] = IdleTask("waitlock")]
                 /\ call' = [call EXCEPT ![c] = Ended(AfterSpawnPc)]
            ELSE /\ call' = [call EXCEPT ![c] = Ended("success")]
                 /\ UNCHANGED task
    /\ UNCHANGED <<db, nextId, holder, client, chan, delivered, owed, conns, qvars, evars>>

Next ==
    \/ PeriodicLock
    \/ TimerElapse
    \/ PeriodicTick
    \/ \E t \in Triggered : TriggeredLock(t) \/ TriggeredReturn(t)
    \/ \E t \in Tasks, ok \in BOOLEAN : Fetch(t, ok) \/ Send(t, ok) \/ Mark(t, ok)
    \/ \E t \in Tasks : InitClient(t)
    \/ EventLoopPoll
    \/ \E kind \in Kinds, n \in 0..MaxBatch, b \in BOOLEAN, ok \in BOOLEAN :
          \/ HttpIngest(kind, n, IF b THEN GoodReading ELSE NoMetricReading, ok)
          \/ MqttIngest(kind, n, b, GoodReading, ok)
    \/ \E c \in Calls, ok \in BOOLEAN : CountSpawn(c, ok)
    \/ \E ok \in BOOLEAN : MqttAck(ok)

Spec == Init /\ [][Next]_vars

\* The gateway while every mark step succeeds: all of Next but the failure of
\* mark_as_synced.
MNext ==
    \/ PeriodicLock
    \/ TimerElapse
    \/ PeriodicTick
    \/ \E t \in Triggered : TriggeredLock(t) \/ TriggeredReturn(t)
    \/ \E t \in Tasks, ok \in BOOLEAN : Fetch(t, ok) \/ Send(t, ok)
    \/ \E t \in Tasks : Mark(t, TRUE)
    \/ \E t \in Tasks : InitClient(t)
    \/ EventLoopPoll
    \/ \E kind \in Kinds, n \in 0..MaxBatch, b \in BOOLEAN, ok \in BOOLEAN :
          \/ HttpIngest(kind, n, IF b THEN GoodReading ELSE NoMetricReading, ok)
          \/ MqttIngest(kind, n, b, GoodReading, ok)
    \/ \E c \in Calls, ok \in BOOLEAN : CountSpawn(c, ok)
    \/ \E ok \in BOOLEAN : MqttAck(ok)

MarkOkSpec == Init /\ [][MNext]_vars

\* The two adapters alone, on every reading and every batch size: the sync
\* tasks they spawn are left waiting.
ANext ==
    \/ \E kind \in Kinds, n \in 0..(MaxBatchLen + 1), r \in Readings, ok \in BOOLEAN :
          \/ HttpIngest(kind, n, r, ok)
          \/ \E parseOk \in BOOLEAN : MqttIngest(kind, n, parseOk, r, ok)
    \/ \E c \in Calls, ok \in BOOLEAN : CountSpawn(c, ok)
    \/ \E ok \in BOOLEAN : MqttAck(ok)
    \/ MqttSkip
    \/ MqttPollError
    \/ MqttSleepDone

AdapterSpec == Init /\ [][ANext]_vars

\* ------------------------------------------------------------ lifecycle
\* bootstrap has not returned: the runtime and its tasks are alive
Alive == proc.main = "select"

\* the future of axum::serve completes (with an error or without)
HttpServerDone ==
    /\ Alive
    /\ proc.http = "running"
    /\ proc' = [proc EXCEPT !.http = "done"]
    /\ UNCHANGED <<db, nextId, task, holder, client, chan, delivered, owed, call, conns, qvars, edge>>

\* the task of MqttHandler::start ends (its loop has no exit: a panic)
MqttTaskDone ==
    /\ Alive
    /\ proc.mqtt = "running"
    /\ proc' = [proc EXCEPT !.mqtt = "done"]
    /\ UNCHANGED <<db, nextId, task, holder, client, chan, delivered, owed, call, conns, qvars, edge>>

JoinReady == proc.http = "done" /\ proc.mqtt = "done"
\* tokio::select! { result = http_server => .., _ = mqtt_task => .. }: the
\* first of the two futures to complete ends the wait
SelectReady == proc.http = "done" \/ proc.mqtt = "done"

\* the branch of the select! runs and bootstrap returns Ok(()): the runtime
\* shuts down and with it every task that was spawned
BootstrapSelect ==
    /\ Alive
    /\ SelectReady
    /\ proc' = [proc EXCEPT !.main = "exited"]
    /\ UNCHANGED <<db, nextId, task, holder, client, chan, delivered, owed, call, conns, qvars, edge>>

\* The program from start to exit. The tasks run while bootstrap waits in
\* its select!; an adapter takes calls while its own task runs. Storage and
\* publishes succeed here, and every call is a single valid reading.
LNext ==
    \/ HttpServerDone
    \/ MqttTaskDone
    \/ BootstrapSelect
    \/ /\ Alive
       /\ \/ PeriodicLock
          \/ TimerElapse
          \/ PeriodicTick
          \/ \E t \in Triggered : TriggeredLock(t) \/ TriggeredReturn(t)
          \/ \E t \in Tasks : Fetch(t, TRUE) \/ Send(t, TRUE) \/ Mark(t, TRUE)
          \/ \E t \in Tasks : InitClient(t)
          \/ EventLoopPoll
          \/ /\ proc.http = "running"
             /\ \/ HttpIngest("single", 1, GoodReading, TRUE)
                \/ CountSpawn("http", TRUE)
          \/ /\ proc.mqtt = "running"
             /\ \/ MqttIngest("single", 1, TRUE, GoodReading, TRUE)
                \/ MqttAck(TRUE)
                \/ CountSpawn("mqtt", TRUE)

LifeSpec == Init /\ [][LNext]_vars

\* bootstrap is woken when one of the futures of its select! completes
LifeFairSpec == LifeSpec /\ WF_vars(BootstrapSelect)

\* ---------------------------------------------------- enrichment pipeline
\* f32::is_nan, f32::is_infinite
is_nan(x) == x.k = "nan"
is_infinite(x) == x.k = "inf"
\* x < c, x > c and x.abs() > c for a finite c: every comparison with NaN
\* is false
Lt(x, c) == IF x.k = "num" THEN x.v < c ELSE x.k = "inf" /\ x.v < 0
Gt(x, c) == IF x.k = "num" THEN x.v > c ELSE x.k = "inf" /\ x.v > 0
AbsGt(x, c) == IF x.k = "num" THEN (x.v > c \/ x.v < -c) ELSE x.k = "inf"

\* measurement names, in the spellings a sensor may use
Names ==
    {"Temperature", "temperature", "Humidity", "humedad", "Distancia",
     "voltage", "pressure"}

as_is(str) == str
\* str::to_lowercase on those names
to_lowercase(str) ==
    CASE str = "Temperature" -> "temperature"
      [] str = "Humidity" -> "humidity"
      [] str = "Distancia" -> "distancia"
      [] OTHER -> str

\* the values on both sides of every limit of detect_anomaly, and the
\* values that are not finite
Values ==
    {Num(v) : v \in {-10001, -11, -10, -1, 0, 9, 10, 50, 51, 95, 96, 10000, 10001}}
        \cup {NaN, PosInf, NegInf}

\* SensorMetric
Metrics == [measurement : Names, value : Values]
SpecialMetrics == {m \in Metrics : m.value.k # "num"}

MetricLists ==
    UNION {[1..n -> Metrics] : n \in 0..(MaxMetrics - 1)}
        \cup [1..MaxMetrics -> SpecialMetrics]

\* SensorDataInput as far as the pipeline reads it
Inputs == [location : Locations, metrics : MetricLists]

\* Iterator::find: the index of the first metric whose lowercased name is in
\* names, 0 for None
find(metrics, names) ==
    LET hits == {i \in 1..Len(metrics) : to_lowercase(metrics[i].measurement) \in names}
    IN IF hits = {} THEN 0 ELSE CHOOSE i \in hits : \A j \in hits : i <= j

temp_metric(metrics) == find(metrics, {"temperature"})
hum_metric(metrics) == find(metrics, {"humidity", "humedad"})

\* the loop of detect_anomaly on one metric
metric_anomaly(m) ==
    \/ is_nan(m.value) \/ is_infinite(m.value)
    \/ LET name == to_lowercase(m.measurement)
       IN IF name \in {"distance", "distancia"}
          THEN Lt(m.value, 0) \/ Gt(m.value, 10000)
          ELSE IF name \in {"voltage", "voltaje"}
          THEN Lt(m.value, 0) \/ Gt(m.value, 50)
          ELSE AbsGt(m.value, 10000)

\* detect_anomaly: the range of the temperature metric found, the range of
\* the humidity metric found, then the loop over all metrics
detect_anomaly(metrics, temp, hum) ==
    \/ temp # 0 /\ (Lt(metrics[temp].value, -10) \/ Gt(metrics[temp].value, 50))
    \/ hum # 0 /\ (Lt(metrics[hum].value, 10) \/ Gt(metrics[hum].value, 95))
    \/ \E i \in 1..Len(metrics) : metric_anomaly(metrics[i])

\* compute_metrics: the three derived values are Some together (their f32
\* values are not modelled) or None together
compute_metrics(metrics, temp, hum) ==
    LET both == temp # 0 /\ hum # 0
        opt == IF both THEN "Some" ELSE "None"
    IN [heat_index |-> opt, dew_point |-> opt, comfort_level |-> opt,
        is_anomaly |-> detect_anomaly(metrics, temp, hum)]

wrapping_sub(a, b) == (a - b) % 256
\* u8::saturating_sub
saturating_sub(a, b) == IF a >= b THEN a - b ELSE 0

\* the loop of assess_quality over the metrics from index i on: q is the
\* score and the number of issues so far
RECURSIVE metric_quality(_, _, _)
metric_quality(metrics, i, q) ==
    IF i > Len(metrics) THEN q
    ELSE LET q1 == IF is_nan(metrics[i].value)
                   THEN [score |-> saturating_sub(q.score, 30), issues |-> q.issues + 1]
                   ELSE q
             q2 == IF is_infinite(metrics[i].value)
                   THEN [score |-> saturating_sub(q1.score, 30), issues |-> q1.issues + 1]
                   ELSE q1
         IN metric_quality(metrics, i + 1, q2)

\* assess_quality: score, the length of issues, corrected
assess_quality(input, computed) ==
    LET q0 == [score |-> 100, issues |-> 0]
        q1 == IF Len(input.metrics) = 0
              THEN [score |-> saturating_sub(q0.score, 50), issues |-> q0.issues + 1]
              ELSE q0
        q2 == IF computed.is_anomaly
              THEN [score |-> saturating_sub(q1.score, 25), issues |-> q1.issues + 1]
              ELSE q1
        q3 == metric_quality(input.metrics, 1, q2)
        q4 == IF Trim(input.location) = ""
              THEN [score |-> saturating_sub(q3.score, 10), issues |-> q3.issues + 1]
              ELSE q3
    IN [score |-> q4.score, issues |-> q4.issues, corrected |-> FALSE]

\* process_reading: computed, quality and metadata.metrics_count of the
\* record (id and gateway_timestamp are Processed and Row above)
process_reading(input) ==
    LET computed == compute_metrics(input.metrics, temp_metric(input.metrics),
                                    hum_metric(input.metrics))
    IN [computed |-> computed,
        quality |-> assess_quality(input, computed),
        metrics_count |-> Len(input.metrics)]

\* a call of process_reading on any reading
ProcessReading(input) ==
    /\ ~edge.called
    /\ edge' = [called |-> TRUE, input |-> input, out |-> process_reading(input)]
    /\ UNCHANGED <<db, nextId, task, holder, client, chan, delivered, owed, call, conns, qvars, proc>>

ENext == ~edge.called /\ \E input \in Inputs : ProcessReading(input)

EdgeSpec == Init /\ [][ENext]_vars

\* ------------------------------------------------------- f32 arithmetic
\* IEEE 754 binary32 with round-to-nearest-even, the arithmetic of Rust's
\* f32 on the target.  A finite value is (-1)^s * m * 2^e with m < 2^24 and
\* e >= -149; NaN and the infinities are NaN, PosInf and NegInf above.
F32(s, m, e) == [k |-> "f32", s |-> s, m |-> m, e |-> e]

RECURSIVE BitLen(_)
BitLen(n) == IF n = 0 THEN 0 ELSE 1 + BitLen(n \div 2)

Inf(s) == IF s = 0 THEN PosInf ELSE NegInf
SignOf(x) == IF x.k = "f32" THEN x.s ELSE IF x.v < 0 THEN 1 ELSE 0
IsZero(x) == x.k = "f32" /\ x.m = 0
Xor(s, t) == IF s = t THEN 0 ELSE 1

\* a number with a trailing jam bit: the last bit is set if bits were lost
Jam(q, lost) == IF lost /\ q % 2 = 0 THEN q + 1 ELSE q

\* the f32 nearest to (-1)^s * n * 2^e, n < 2^30 with a jam bit: normal,
\* subnormal, or infinite on overflow; round to nearest, ties to even
pack(s, n, e) ==
    IF n = 0 THEN F32(s, 0, 0)
    ELSE LET len == BitLen(n)
             sh == IF e + len - 24 < -149 THEN -149 - e ELSE len - 24
         IN IF sh <= 0 THEN F32(s, n * 2 ^ (-sh), e + sh)
            ELSE IF sh > len THEN F32(s, 0, 0)
            ELSE LET q == n \div 2 ^ sh
                     r == n % 2 ^ sh
                     half == 2 ^ (sh - 1)
                     up == r > half \/ (r = half /\ q % 2 = 1)
                     m == IF up THEN q + 1 ELSE q
                     m1 == IF m = 2 ^ 24 THEN 2 ^ 23 ELSE m
                     e1 == IF m = 2 ^ 24 THEN e + sh + 1 ELSE e + sh
                 IN IF m1 = 0 THEN F32(s, 0, 0)
                    ELSE IF e1 > 104 THEN Inf(s)
                    ELSE F32(s, m1, e1)

\* a finite non-zero value with its significand shifted to 24 bits
RECURSIVE norm(_)
norm(x) == IF x.m >= 2 ^ 23 THEN x ELSE norm(F32(x.s, x.m * 2, x.e - 1))

\* a * b
f32_mul(a, b) ==
    IF is_nan(a) \/ is_nan(b) THEN NaN
    ELSE IF is_infinite(a) \/ is_infinite(b)
    THEN IF IsZero(a) \/ IsZero(b) THEN NaN ELSE Inf(Xor(SignOf(a), SignOf(b)))
    ELSE IF IsZero(a) \/ IsZero(b) THEN F32(Xor(a.s, b.s), 0, 0)
    ELSE LET x == norm(a)
             y == norm(b)
             ah == x.m \div 4096
             al == x.m % 4096
             bh == y.m \div 4096
             bl == y.m % 4096
             mid == ah * bl + al * bh
             low == (mid % 4096) * 4096 + al * bl
             hi == ah * bh + mid \div 4096 + low \div 2 ^ 24
             lo == low % 2 ^ 24
         IN pack(Xor(a.s, b.s),
                 Jam(hi * 32 + lo \div 2 ^ 19, lo % 2 ^ 19 # 0),
                 x.e + y.e + 19)

\* |x| >= |y| for normalized finite non-zero values
MagGe(x, y) == x.e > y.e \/ (x.e = y.e /\ x.m >= y.m)

\* a + b
f32_add(a, b) ==
    IF is_nan(a) \/ is_nan(b) THEN NaN
    ELSE IF is_infinite(a)
    THEN IF is_infinite(b) /\ SignOf(a) # SignOf(b) THEN NaN ELSE a
    ELSE IF is_infinite(b) THEN b
    ELSE IF IsZero(a) THEN (IF IsZero(b) /\ a.s # b.s THEN F32(0, 0, 0) ELSE b)
    ELSE IF IsZero(b) THEN a
    ELSE LET x == norm(a)
             y == norm(b)
             big == IF MagGe(x, y) THEN x ELSE y
             small == IF MagGe(x, y) THEN y ELSE x
             d == big.e - small.e
             A == big.m * 8
             B == IF d >= 27 THEN 1
                  ELSE Jam((small.m * 8) \div 2 ^ d, (small.m * 8) % 2 ^ d # 0)
             n == IF big.s = small.s THEN A + B ELSE A - B
         IN IF n = 0 THEN F32(0, 0, 0) ELSE pack(big.s, n, big.e - 3)

f32_neg(a) ==
    IF is_nan(a) THEN NaN
    ELSE IF is_infinite(a) THEN Inf(1 - SignOf(a))
    ELSE F32(1 - a.s, a.m, a.e)

\* a - b
f32_sub(a, b) == f32_add(a, f32_neg(b))

\* n more bits of the quotient of r / d, after the bits q
RECURSIVE LongDiv(_, _, _, _)
LongDiv(r, d, n, q) ==
    IF n = 0 THEN [q |-> q, r |-> r]
    ELSE IF 2 * r >= d THEN LongDiv(2 * r - d, d, n - 1, 2 * q + 1)
    ELSE LongDiv(2 * r, d, n - 1, 2 * q)

\* a / b
f32_div(a, b) ==
    IF is_nan(a) \/ is_nan(b) THEN NaN
    ELSE IF is_infinite(a)
    THEN IF is_infinite(b) THEN NaN ELSE Inf(Xor(SignOf(a), SignOf(b)))
    ELSE IF is_infinite(b) THEN F32(Xor(SignOf(a), SignOf(b)), 0, 0)
    ELSE IF IsZero(b)
    THEN IF IsZero(a) THEN NaN ELSE Inf(Xor(a.s, b.s))
    ELSE IF IsZero(a) THEN F32(Xor(a.s, b.s), 0, 0)
    ELSE LET x == norm(a)
             y == norm(b)
             res == LongDiv(x.m % y.m, y.m, 26, x.m \div y.m)
         IN pack(Xor(a.s, b.s), Jam(res.q, res.r # 0), x.e - y.e - 26)

\* a < b; false when either is NaN
f32_lt(a, b) ==
    IF is_nan(a) \/ is_nan(b) THEN FALSE
    ELSE IF is_infinite(a) THEN SignOf(a) = 1 /\ b # a
    ELSE IF is_infinite(b) THEN SignOf(b) = 0
    ELSE IF IsZero(a) THEN ~IsZero(b) /\ b.s = 0
    ELSE IF IsZero(b) THEN a.s = 1
    ELSE IF a.s # b.s THEN a.s = 1
    ELSE LET x == norm(a)
             y == norm(b)
         IN IF a.s = 0 THEN ~MagGe(x, y) ELSE ~MagGe(y, x)

\* a == b (the zeros of both signs are equal, NaN is equal to nothing)
f32_eq(a, b) ==
    IF is_nan(a) \/ is_nan(b) THEN FALSE
    ELSE IF IsZero(a) /\ IsZero(b) THEN TRUE
    ELSE a = b

f32_le(a, b) == f32_lt(a, b) \/ f32_eq(a, b)

\* f32::abs
f32_abs(a) ==
    IF is_nan(a) THEN NaN
    ELSE IF is_infinite(a) THEN PosInf
    ELSE F32(0, a.m, a.e)

\* ------------------------------------------------------ derived metrics
\* the f32 of a whole number below 2^24
whole(n) ==
    IF n = 0 THEN F32(0, 0, 0)
    ELSE norm(IF n < 0 THEN F32(1, -n, 0) ELSE F32(0, n, 0))

\* temp_c * 9.0 / 5.0 + 32.0
to_fahrenheit(temp_c) == f32_add(f32_div(f32_mul(temp_c, whole(9)), whole(5)), whole(32))

below_or_at_threshold(temp_f) == f32_le(temp_f, whole(80))
\* temp_f < 80.0
below_threshold(temp_f) == f32_lt(temp_f, whole(80))

\* the nine terms, added and multiplied from left to right as written; c
\* holds the literals as f32: 42.379, 2.04901523, 10.14333127, 0.22475541,
\* 0.00683783, 0.05481717, 0.00122874, 0.00085282, 0.00000199
rothfusz(t, rh) ==
    LET c == <<F32(0, 11109401, -18),
             F32(0, 8594193, -22),
             F32(0, 10636054, -20),
             F32(0, 15083080, -26),
             F32(0, 14684128, -31),
             F32(0, 14714872, -28),
             F32(0, 10554796, -33),
             F32(0, 14651336, -34),
             F32(0, 8752113, -42)>>
        s1 == f32_add(f32_neg(c[1]), f32_mul(c[2], t))
        s2 == f32_add(s1, f32_mul(c[3], rh))
        s3 == f32_sub(s2, f32_mul(f32_mul(c[4], t), rh))
        s4 == f32_sub(s3, f32_mul(f32_mul(c[5], t), t))
        s5 == f32_sub(s4, f32_mul(f32_mul(c[6], rh), rh))
        s6 == f32_add(s5, f32_mul(f32_mul(f32_mul(c[7], t), t), rh))
        s7 == f32_add(s6, f32_mul(f32_mul(f32_mul(c[8], t), rh), rh))
    IN f32_sub(s7, f32_mul(f32_mul(f32_mul(f32_mul(c[9], t), t), rh), rh))

\* (hi - 32.0) * 5.0 / 9.0
to_celsius(hi) == f32_div(f32_mul(f32_sub(hi, whole(32)), whole(5)), whole(9))

calculate_heat_index(temp_c, humidity) ==
    LET temp_f == to_fahrenheit(temp_c)
    IN IF below_threshold(temp_f) THEN temp_c
       ELSE to_celsius(rothfusz(temp_f, humidity))

unclamped(x) == x
\* .max(0.0).min(100.0); f32::max and f32::min return the other argument
\* when one is NaN
clamp(x) ==
    LET lo == IF is_nan(x) \/ f32_lt(x, whole(0)) THEN whole(0) ELSE x
    IN IF f32_lt(whole(100), lo) THEN whole(100) ELSE lo

calculate_comfort_level(temp_c, humidity) ==
    LET dt == f32_abs(f32_sub(temp_c, whole(22)))
        dh == f32_abs(f32_sub(humidity, whole(50)))
        \* 0.5, 0.6 and 0.4 as f32
        half_f32 == F32(0, 8388608, -24)
        w_temp == F32(0, 10066330, -24)
        w_hum == F32(0, 13421773, -25)
        temp_score ==
            IF f32_le(whole(20), temp_c) /\ f32_le(temp_c, whole(24)) THEN whole(100)
            ELSE IF f32_le(whole(18), temp_c) /\ f32_le(temp_c, whole(26))
            THEN f32_sub(whole(80), f32_mul(dt, whole(10)))
            ELSE f32_sub(whole(50), f32_mul(dt, whole(5)))
        humidity_score ==
            IF f32_le(whole(40), humidity) /\ f32_le(humidity, whole(60)) THEN whole(100)
            ELSE IF f32_le(whole(30), humidity) /\ f32_le(humidity, whole(70))
            THEN f32_sub(whole(80), dh)
            ELSE f32_sub(whole(50), f32_mul(dh, half_f32))
    IN clamp(f32_add(f32_mul(temp_score, w_temp), f32_mul(humidity_score, w_hum)))

\* temperatures in Celsius: cold, the comfort zone and its edges, the three
\* f32 values around the one whose Fahrenheit value first reaches 80, warm
\* and hot ones, the largest finite values, and the values that are not finite
Temps ==
    {F32(1, 16777215, 104),
     F32(1, 10485760, -18),
     F32(0, 0, 0),
     F32(0, 10485760, -19),
     F32(0, 12058624, -19),
     F32(0, 13631488, -19),
     F32(0, 13981012, -19),
     F32(0, 13981013, -19),
     F32(0, 13981014, -19),
     F32(0, 13988004, -19),
     F32(0, 14155776, -19),
     F32(0, 15728640, -19),
     F32(0, 9175040, -18),
     F32(0, 10485760, -18),
     F32(0, 16777215, 104)}
        \cup {NaN, PosInf}

\* relative humidities: in and out of 0..100, the limits of the humidity
\* score, and three at which the regression meets 40, 30 and 27 degrees
Hums ==
    {F32(1, 16777215, 104),
     F32(0, 0, 0),
     F32(0, 10485760, -20),
     F32(0, 11505352, -19),
     F32(0, 9175040, -18),
     F32(0, 11162935, -18),
     F32(0, 11184193, -18),
     F32(0, 13107200, -18),
     F32(0, 8519680, -17),
     F32(0, 9175040, -17),
     F32(0, 13107200, -17),
     F32(0, 16777215, 104)}
        \cup {NaN}

\* the state before compute_metrics is called on a reading that has a
\* temperature and a humidity metric
MInit ==
    /\ db = {}
    /\ nextId = 1
    /\ task = [t \in Tasks |-> IF t = Periodic THEN IdleTask("start")
                                               ELSE IdleTask("unspawned")]
    /\ holder = NoTask
    /\ client = "none"
    /\ chan = <<>>
    /\ delivered = {}
    /\ owed = 0
    /\ call = [c \in Calls |-> Ended("idle")]
    /\ conns = 0
    /\ now = 0
    /\ tx = NoTx
    /\ ret = NoRet
    /\ proc = Started
    /\ \E t \in Temps, h \in Hums :
           edge = [called |-> FALSE, temp |-> t, hum |-> h]

\* compute_metrics with both metrics found: the heat index and the comfort
\* level of the pair (the dew point is not modelled)
ComputeDerived ==
    /\ ~edge.called
    /\ edge' = [called |-> TRUE, temp |-> edge.temp, hum |-> edge.hum,
                heat_index |-> calculate_heat_index(edge.temp, edge.hum),
                comfort_level |-> calculate_comfort_level(edge.temp, edge.hum)]
    /\ UNCHANGED <<db, nextId, task, holder, client, chan, delivered, owed, call, conns, qvars, proc>>

MNextDerived == ComputeDerived

MetricSpec == MInit /\ [][MNextDerived]_vars

\* ---------------------------------------------------------------- drain
\* The program when every query, publish and transaction succeeds and the
\* broker takes what is queued: readings arrive on the request/response
\* adapter, with a finite or an infinite metric, until the ids run out.
DNext ==
    \/ PeriodicLock
    \/ TimerElapse
    \/ PeriodicTick
    \/ \E t \in Triggered : TriggeredLock(t) \/ TriggeredReturn(t)
    \/ \E t \in Tasks : Fetch(t, TRUE) \/ Send(t, TRUE) \/ Mark(t, TRUE)
    \/ \E t \in Tasks : InitClient(t)
    \/ EventLoopPoll
    \/ \E r \in {GoodReading, InfReading} : HttpIngest("single", 1, r, TRUE)
    \/ CountSpawn("http", TRUE)

DrainSpec == Init /\ [][DNext]_vars

\* every task that is ready runs, the timer fires and the broker takes the
\* requests queued; nothing makes a sensor send a reading
DrainFairSpec ==
    /\ DrainSpec
    /\ WF_vars(PeriodicLock)
    /\ WF_vars(TimerElapse)
    /\ WF_vars(PeriodicTick)
    /\ WF_vars(EventLoopPoll)
    /\ WF_vars(CountSpawn("http", TRUE))
    /\ \A t \in Triggered : WF_vars(TriggeredLock(t)) /\ WF_vars(TriggeredReturn(t))
    /\ \A t \in Tasks :
           /\ WF_vars(Fetch(t, TRUE))
           /\ WF_vars(InitClient(t))
           /\ WF_vars(Send(t, TRUE))
           /\ WF_vars(Mark(t, TRUE))

\* ------------------------------------------------------------- fairness
\* The runtime runs every task that is ready: a storage await, the client
\* initialisation, the tick and a publish into a channel with room complete.
\* The tokio Mutex is FIFO-fair, a waiter gets the guard if it keeps being
\* released. Nothing makes a publish fail, the broker take a request, or a
\* sensor send a reading.
TaskFairness(t) ==
    /\ WF_vars(\E ok \in BOOLEAN : Fetch(t, ok))
    /\ WF_vars(InitClient(t))
    /\ WF_vars(Send(t, TRUE))
    /\ WF_vars(\E ok \in BOOLEAN : Mark(t, ok))

FairSpec ==
    /\ Init /\ [][Next]_vars
    /\ WF_vars(PeriodicLock)
    /\ WF_vars(TimerElapse)
    /\ WF_vars(PeriodicTick)
    /\ \A t \in Tasks : TaskFairness(t)
    /\ \A t \in Triggered : SF_vars(TriggeredLock(t)) /\ WF_vars(TriggeredReturn(t))
    /\ \A c \in Calls : WF_vars(\E ok \in BOOLEAN : CountSpawn(c, ok))
    /\ WF_vars(\E ok \in BOOLEAN : MqttAck(ok))

\* ------------------------------------- the Database methods, called directly
\* Every use the program makes of the queue is a sequence of calls of these
\* methods; here they are called in any order, with any argument, from
\* several connections of the pool, while the wall clock advances.
RowIds == 1..MaxRows
Limits == 0..(MaxRows + 1)
\* days_to_keep: i64
Days == -1..2

pvars == <<nextId, task, holder, client, chan, delivered, owed, call, conns>>

DbIds(d) == {r.id : r \in d}

\* arg: the argument of the call; for insert_batch, the rows it had written
\* when it ended.  ids: the ids the call was about; for a read, the ids an open transaction
\* had written and not committed when the read ran
Ret(op, ok, arg, val, rows, ids) ==
    [op |-> op, ok |-> ok, arg |-> arg, val |-> val, rows |-> rows, ids |-> ids]

insert_or_replace(d, row) == {r \in d : r.id # row.id} \cup {row}

\* INSERT INTO sensor_readings (..): id is the PRIMARY KEY, a row whose id is
\* stored is refused and the table is left as it was
insert_row(d, row) == IF row.id \in DbIds(d) THEN d ELSE d \cup {row}

VisibleDirty(d, buf) == d \cup buf

\* what a statement on another connection of the pool reads while a
\* transaction holds the uncommitted rows buf: the committed rows only
Visible(d, buf) == d

\* SQLite has one writer: once the open transaction has written, a write
\* from another connection fails (busy)
WriteLocked == tx.open /\ tx.buf # {}

\* Utc::now() is read
ClockAdvance ==
    /\ now < MaxTime
    /\ now' = now + 1
    /\ UNCHANGED <<db, pvars, tx, ret, evars>>

\* insert_reading(&data).await
QInsert(i, ok) ==
    /\ tx.open => i \notin DbIds(tx.rows)
    /\ LET row == NewRow(i, now)
           done == ok /\ ~WriteLocked /\ i \notin DbIds(db)
       IN /\ db' = IF ok /\ ~WriteLocked THEN insert_row(db, row) ELSE db
          /\ ret' = Ret("insert_reading", done, 0, 0, <<>>, {i})
    /\ UNCHANGED <<pvars, now, tx, evars>>

\* insert_batch(&data): let mut tx = self.pool.begin().await?
QBegin(S) ==
    /\ ~tx.open
    /\ S # {} /\ S \cap DbIds(db) = {}
    /\ tx' = [open |-> TRUE, rows |-> {NewRow(i, now) : i \in S}, buf |-> {}]
    /\ UNCHANGED <<db, pvars, now, ret, evars>>

\* one turn of `for reading in data`: the INSERT on the transaction; on an
\* error `?` returns, the transaction is dropped and rolls back
QTxInsert(ok) ==
    /\ tx.open /\ tx.buf # tx.rows
    /\ LET rest == tx.rows \ tx.buf
           r == CHOOSE x \in rest : \A y \in rest : x.id <= y.id
       IN IF ok /\ r.id \notin DbIds(db)
          THEN /\ tx' = [tx EXCEPT !.buf = @ \cup {r}]
               /\ UNCHANGED ret
          ELSE /\ tx' = NoTx
               /\ ret' = Ret("insert_batch", FALSE, Cardinality(tx.buf), 0, <<>>, DbIds(tx.rows))
    /\ UNCHANGED <<db, pvars, now, evars>>

\* tx.commit().await?
QCommit(ok) ==
    /\ tx.open /\ tx.buf = tx.rows
    /\ db' = IF ok THEN db \cup tx.buf ELSE db
    /\ tx' = NoTx
    /\ ret' = Ret("insert_batch", ok, Cardinality(tx.buf), 0, <<>>, DbIds(tx.rows))
    /\ UNCHANGED <<pvars, now, evars>>

\* get_pending_sync(limit).await
QPending(limit) ==
    /\ LET rows == get_pending_sync(Visible(db, tx.buf), limit)
       IN ret' = Ret("get_pending_sync", rows_convert(Visible(db, tx.buf), rows),
                     limit, 0, rows, DbIds(tx.buf))
    /\ UNCHANGED <<db, pvars, now, tx, evars>>

\* count_pending_sync().await
QCount ==
    /\ ret' = Ret("count_pending_sync", TRUE, 0,
                  count_pending_sync(Visible(db, tx.buf)), <<>>, DbIds(tx.buf))
    /\ UNCHANGED <<db, pvars, now, tx, evars>>

\* mark_as_synced(&ids).await: an id that is not stored updates no row
QMark(S, ok) ==
    /\ LET done == ok /\ ~WriteLocked IN
       /\ db' = IF done THEN mark_as_synced(db, S, now) ELSE db
       /\ ret' = Ret("mark_as_synced", done, 0, 0, <<>>, S)
    /\ UNCHANGED <<pvars, now, tx, evars>>

\* '-' || ? || ' days' is a modifier datetime() accepts only for an argument
\* that is not negative ('--1 days' makes datetime() return NULL)
ModifierParses(days) == days >= 0

PurgedAnyState(d, days, at) ==
    {r \in d : /\ ModifierParses(days)
               /\ Seconds(r.ts) < Seconds(at) - days * SecsPerDay}

\* WHERE synced = 1
\*   AND datetime(gateway_timestamp) < datetime('now', '-' || ? || ' days')
\* (a comparison with NULL selects no row)
Purged(d, days, at) ==
    {r \in d : /\ r.synced
               /\ ModifierParses(days)
               /\ Seconds(r.ts) < Seconds(at) - days * SecsPerDay}

\* cleanup_old_synced(days_to_keep).await: Ok(result.rows_affected())
QCleanup(days, ok) ==
    /\ LET done == ok /\ ~WriteLocked
           gone == IF done THEN Purged(db, days, now) ELSE {}
       IN /\ db' = db \ gone
          /\ ret' = Ret("cleanup_old_synced", done, days, Cardinality(gone), <<>>, {})
    /\ UNCHANGED <<pvars, now, tx, evars>>

QNext ==
    \/ ClockAdvance
    \/ \E i \in RowIds, ok \in BOOLEAN : QInsert(i, ok)
    \/ \E S \in SUBSET RowIds : QBegin(S)
    \/ \E ok \in BOOLEAN : QTxInsert(ok) \/ QCommit(ok)
    \/ \E limit \in Limits : QPending(limit)
    \/ QCount
    \/ \E S \in SUBSET RowIds, ok \in BOOLEAN : QMark(S, ok)
    \/ \E days \in Days, ok \in BOOLEAN : QCleanup(days, ok)

QueueSpec == Init /\ [][QNext]_vars

\* ------------------------------------------------------------ vocabulary
InCyclePcs == {"fetch", "init", "send", "mark"}
\* between the fetch of pending records and the end of the mark step
HoldingPcs == {"init", "send", "mark"}
Errors == {"fetch_err", "mark_err", "bail"}

Returned(t) == task[t].outcome # "none"
Fetched(t) == SeqToSet(task[t].pending_data)
IsSynced(i) == \E r \in db : r.id = i /\ r.synced
IsPending(i) == \E r \in db : r.id = i /\ ~r.synced
Held(t) == IF task[t].pc \in HoldingPcs THEN Fetched(t) ELSE {}
TsOf(i) == (CHOOSE r \in db : r.id = i).ts
Attempted(t) == task[t].okSent \cup task[t].failed_ids
SpawnedInStep == {t \in Triggered : task[t].pc = "unspawned" /\ task'[t].pc = "waitlock"}

\* ---------------------------------------------------------------- claims
\* C1 (as stated): when a cycle has returned, the records it marked synced
\* are exactly the fetched records whose dispatch succeeded, and every
\* fetched record whose dispatch failed is still pending.
C1_MarkedExactlyDispatched ==
    \A t \in Tasks : Returned(t) =>
        \A i \in Fetched(t) : (i \in task[t].okSent <=> IsSynced(i))
                              /\ (i \notin task[t].okSent => IsPending(i))

\* C1 (amended): when a cycle has returned, the fetched records that are
\* synced are exactly those whose dispatch succeeded if the mark step
\* committed, and none if the mark step failed; every fetched record whose
\* dispatch failed is still pending.
C1_MarkedDispatchedUnlessMarkFailed ==
    \A t \in Tasks : Returned(t) =>
        \A i \in Fetched(t) :
            /\ IsSynced(i) <=> (i \in task[t].okSent /\ task[t].outcome # "mark_err")
            /\ (i \notin task[t].okSent => IsPending(i))

\* a cycle fetched a full batch while more was pending, one dispatch failed
\* and one succeeded: the scenario of the spec, scaled down
C1_Witness ==
    \E t \in Tasks :
        /\ task[t].outcome = "bail"
        /\ Len(task[t].pending_data) = BatchSize
        /\ task[t].okSent # {} /\ task[t].failed_ids # {}
        /\ \E r \in db : ~r.synced /\ r.id \notin Fetched(t)

\* C2 (as stated): a returned cycle with a failed dispatch has returned an
\* error and its successfully dispatched records are synced; a returned cycle
\* with no failed dispatch and no failed storage operation returned success.
C2_ErrorAfterMarking ==
    \A t \in Tasks : Returned(t) =>
        /\ task[t].failed_ids # {} =>
               task[t].outcome \in Errors /\ \A i \in task[t].okSent : IsSynced(i)
        /\ (task[t].failed_ids = {} /\ task[t].outcome \notin {"fetch_err", "mark_err"})
               => task[t].outcome = "ok"

\* C2 (amended): as C2, except that the successfully dispatched records are
\* synced only if the mark step itself did not fail.
C2_ErrorAfterMarkingUnlessMarkFailed ==
    \A t \in Tasks : Returned(t) =>
        /\ task[t].failed_ids # {} =>
               /\ task[t].outcome \in Errors
               /\ task[t].outcome # "mark_err" => \A i \in task[t].okSent : IsSynced(i)
        /\ (task[t].failed_ids = {} /\ task[t].outcome \notin {"fetch_err", "mark_err"})
               => task[t].outcome = "ok"

\* a cycle returned an error after a dispatch failed and another succeeded,
\* and the successful one is synced
C2_Witness ==
    \E t \in Tasks :
        /\ task[t].outcome = "bail"
        /\ task[t].okSent # {}
        /\ \A i \in task[t].okSent : IsSynced(i)

\* C3: every record marked synced has been received by the remote broker.
C3_SyncedWereReceived == \A r \in db : r.synced => r.id \in delivered

C6_TriggeredCycleStarts ==
    \A t \in Triggered : (task[t].pc = "waitlock") ~> (task[t].pc = "fetch")

\* C7: a step of an adapter call spawns one sync task if the call read a
\* pending count >= batchSize after its append and so ends in success, and
\* no task otherwise; no other step spawns a task.
C7_SpawnIffThreshold ==
    [][/\ \A c \in Calls : call'[c] # call[c] =>
              Cardinality(SpawnedInStep) =
                  IF /\ call[c].pc = "count"
                     /\ call'[c].pc = "success"
                     /\ count_pending_sync(db) >= BatchSize
                  THEN 1 ELSE 0
       /\ call' = call => SpawnedInStep = {}]_vars

\* a call has ended in success and a spawned task is waiting for the guard
C7_Witness ==
    /\ \E c \in Calls : call[c].pc = "success"
    /\ \E t \in Triggered : task[t].pc = "waitlock"
    /\ count_pending_sync(db) >= BatchSize

\* C8: the step in which a call spawns a sync task is the step in which it
\* returns success, and no step of a sync task changes how a call ended.
C8_ResponseIndependentOfSync ==
    [][/\ \A c \in Calls :
              (call'[c] # call[c] /\ SpawnedInStep # {}) => call'[c].pc = "success"
       /\ (task' # task /\ SpawnedInStep = {}) => call' = call]_vars

\* both adapters have returned success while a triggered cycle has failed
\* and another has not started
C8_Witness ==
    /\ \A c \in Calls : call[c].pc = "success"
    /\ \E t, u \in Triggered :
          /\ task[t].pc = "ret" /\ task[t].outcome \in Errors
          /\ task[u].pc = "waitlock"

\* C9: every cycle that has started returns.
C9_CycleTerminates ==
    \A t \in Tasks : (task[t].pc \in InCyclePcs) ~> (task[t].pc \notin InCyclePcs)

\* C10: when sync_data returns to the periodic loop, with or without an
\* error, the loop waits for the next tick with the guard and the owed ticks
\* unchanged; every tick it takes starts a cycle; the loop never ends.
C10_PeriodicLoopContinues ==
    [][/\ (task[Periodic].pc \in InCyclePcs /\ task'[Periodic].pc \notin InCyclePcs)
              => (task'[Periodic].pc = "tick" /\ owed' = owed /\ holder' = Periodic)
       /\ (task[Periodic].pc = "tick" /\ task'[Periodic].pc # "tick")
              => (task'[Periodic].pc = "fetch" /\ owed' = owed - 1)
       /\ task[Periodic].pc # "start" => task'[Periodic].pc \in InCyclePcs \cup {"tick"}]_vars

\* the loop waits for the tick after a cycle that returned an error, and a
\* tick is due
C10_Witness ==
    /\ task[Periodic].pc = "tick"
    /\ task[Periodic].outcome \in Errors
    /\ owed > 0

\* C11: the records a cycle fetched are in oldest-first order without
\* repetition; every turn of its dispatch loop dispatches the next record of
\* that order, which the cycle has not dispatched before, and moves on to the
\* following one (or leaves the loop after the last) whether the dispatch
\* succeeded or failed; so far the cycle has dispatched exactly the records
\* before its position, each once.
C11_EachFetchedDispatchedOnceInOrder ==
    [][\A t \in Tasks :
         LET me == task[t]
             new == task'[t]
             n == Len(me.pending_data)
         IN
         /\ (me.pc = "fetch" /\ new.pc \in HoldingPcs) =>
                \A j, k \in 1..Len(new.pending_data) :
                    j < k => /\ new.pending_data[j] # new.pending_data[k]
                             /\ TsOf(new.pending_data[j]) <= TsOf(new.pending_data[k])
         /\ me.pc = "send" =>
                Attempted(t) = {me.pending_data[j] : j \in 1..(me.idx - 1)}
         /\ (me.pc = "send" /\ new # me) =>
                LET id == me.pending_data[me.idx] IN
                /\ id \notin Attempted(t)
                /\ new.pending_data = me.pending_data
                /\ new.okSent \cup new.failed_ids = Attempted(t) \cup {id}
                /\ new.okSent \cap new.failed_ids = {}
                /\ IF id \in new.okSent THEN chan' = Append(chan, id) ELSE chan' = chan
                /\ IF me.idx < n THEN new.pc = "send" /\ new.idx = me.idx + 1
                                 ELSE new.pc # "send"]_vars

\* a cycle whose first dispatch failed has gone on to dispatch its second
\* record, and is through its loop
C11_Witness ==
    \E t \in Tasks :
        /\ Len(task[t].pending_data) = 2
        /\ task[t].pending_data[1] \in task[t].failed_ids
        /\ task[t].pending_data[2] \in task[t].okSent
        /\ task[t].pc = "mark"

\* C12: a stored id is in the result of get_pending_sync for some limit if
\* and only if its row is pending, and once mark_as_synced has committed for
\* a set of ids no get_pending_sync returns any of them.
C12_PendingIffVisible ==
    /\ \A i \in RowIds :
           (\E limit \in Limits : i \in SeqToSet(get_pending_sync(db, limit)))
               <=> IsPending(i)
    /\ (ret.op = "mark_as_synced" /\ ret.ok) =>
           \A limit \in Limits : SeqToSet(get_pending_sync(db, limit)) \cap ret.ids = {}
    /\ ret.op = "get_pending_sync" =>
           \A i \in SeqToSet(ret.rows) : IsPending(i)

\* mark_as_synced has just committed for a stored id while another row is
\* still pending
C12_Witness ==
    /\ ret.op = "mark_as_synced" /\ ret.ok
    /\ \E i \in ret.ids : IsSynced(i)
    /\ \E i \in RowIds \ ret.ids : IsPending(i)

\* C13: in every step of any sequence of insert_reading, insert_batch,
\* mark_as_synced and cleanup_old_synced calls, a row that is synced and is
\* still stored after the step is still synced, and a row that is stored
\* only after the step is pending.
C13_SyncStateMonotonic ==
    [][\A i \in RowIds :
         /\ (IsSynced(i) /\ i \in DbIds(db')) => \E r \in db' : r.id = i /\ r.synced
         /\ (i \notin DbIds(db) /\ i \in DbIds(db')) => \E r \in db' : r.id = i /\ ~r.synced]_vars

\* an insert with the id of a synced row has just been refused, and the row
\* is still synced
C13_Witness ==
    /\ ret.op = "insert_reading" /\ ~ret.ok
    /\ \E i \in ret.ids : IsSynced(i)
    /\ ~WriteLocked

\* C14: marking a set of ids now and again at any later time leaves the
\* table as marking it once does, and marking an id whose row is synced
\* leaves the table as it is.
C14_MarkSyncedIdempotent ==
    /\ \A S \in SUBSET RowIds : \A at \in now..MaxTime :
           mark_as_synced(mark_as_synced(db, S, now), S, at) = mark_as_synced(db, S, now)
    /\ \A i \in RowIds : IsSynced(i) => mark_as_synced(db, {i}, now) = db

\* C15: for every limit, get_pending_sync returns min(limit, number of
\* pending rows) different pending rows, in ascending gateway timestamp, and
\* no pending row it leaves out is older than one it returns.
C15_PendingOldestFirst ==
    \A limit \in Limits :
        LET res == get_pending_sync(db, limit)
            n == count_pending_sync(db)
        IN
        /\ Len(res) = IF limit <= n THEN limit ELSE n
        /\ \A j \in 1..Len(res) : IsPending(res[j])
        /\ \A j, k \in 1..Len(res) :
               j < k => res[j] # res[k] /\ TsOf(res[j]) <= TsOf(res[k])
        /\ \A r \in db : (~r.synced /\ r.id \notin SeqToSet(res)) =>
               \A j \in 1..Len(res) : TsOf(res[j]) <= r.ts

\* the last call had a limit below the number of pending rows and returned
\* the older of the two pending rows, which has the higher id
C15_Witness ==
    /\ ret.op = "get_pending_sync" /\ ret.arg = 1
    /\ ret.rows = <<2>>
    /\ \E r, q \in db : r.id = 1 /\ q.id = 2 /\ ~r.synced /\ ~q.synced /\ q.ts < r.ts

\* C16: while insert_batch is running no row of the batch is visible to
\* another connection, and a get_pending_sync or count_pending_sync that
\* runs meanwhile returns none of the rows written so far; when insert_batch
\* ends, every row of the batch is stored if it returned Ok and none if it
\* returned an error.
C16_BatchAtomic ==
    [][/\ tx'.open => DbIds(Visible(db', tx'.buf)) \cap DbIds(tx'.rows) = {}
       /\ ret'.op = "get_pending_sync" => SeqToSet(ret'.rows) \cap ret'.ids = {}
       /\ (ret'.op = "count_pending_sync" /\ tx'.open) =>
              ret'.val = Cardinality({r \in db' : ~r.synced /\ r.id \notin DbIds(tx'.rows)})
       /\ (tx.open /\ ~tx'.open) =>
              IF ret'.ok THEN tx.rows \subseteq db'
                         ELSE DbIds(tx.rows) \cap DbIds(db') = {}]_vars

\* a batch of two has failed after its first row was written; none of the
\* batch is stored
C16_Witness ==
    /\ ret.op = "insert_batch" /\ ~ret.ok
    /\ Cardinality(ret.ids) = 2
    /\ ret.ids \cap DbIds(db) = {}
    /\ ret.arg = 1

\* the cutoff of a purge, in ticks: the current second less the days
CutoffTicks(at, days) == (Seconds(at) - days * SecsPerDay) * TicksPerSec

\* a step that is a call of cleanup_old_synced that returned Ok
CleanupStep == ret'.op = "cleanup_old_synced" /\ ret'.ok /\ now' = now /\ tx' = tx

\* C17 (as stated): a purge deletes exactly the synced rows whose gateway
\* timestamp is strictly before the cutoff, and returns their number.
C17_PurgeExactlyOldSynced ==
    [][CleanupStep =>
          /\ db' \subseteq db
          /\ db \ db' = {r \in db : r.synced /\ r.ts < CutoffTicks(now, ret'.arg)}
          /\ ret'.val = Cardinality(db \ db')]_vars

\* C17 (amended): as C17 for an argument that is not negative; with a
\* negative argument the purge deletes nothing and returns 0.
C17_PurgeExactlyOldSyncedUnlessNegative ==
    [][CleanupStep =>
          /\ db' \subseteq db
          /\ db \ db' = IF ret'.arg >= 0
                         THEN {r \in db : r.synced /\ r.ts < CutoffTicks(now, ret'.arg)}
                         ELSE {}
          /\ ret'.val = Cardinality(db \ db')]_vars

\* a purge with a retention of one day has deleted one row and left a
\* pending row older than the cutoff
C17_Witness ==
    /\ ret.op = "cleanup_old_synced" /\ ret.ok
    /\ ret.arg = 1 /\ ret.val = 1
    /\ \E r \in db : ~r.synced /\ r.ts < CutoffTicks(now, 1)

\* C18: while the gateway runs, every record that is synced is eventually
\* deleted from the queue.
C18_SyncedEventuallyPurged ==
    \A i \in Ids : IsSynced(i) ~> (i \notin DbIds(db))

\* the fetch of a cycle that runs while no record is pending
EmptyFetchStep(t) ==
    task[t].pc = "fetch" /\ task'[t] # task[t] /\ PendingRows(db) = {}

\* the step leaves the queue, the request channel and the outbound client
\* as they were and ends the cycle
NothingDone(t) ==
    /\ task'[t].pc \notin InCyclePcs
    /\ task'[t].okSent = {} /\ task'[t].failed_ids = {}
    /\ UNCHANGED <<db, chan, delivered, client, conns>>

\* C19 (as stated): a cycle that runs while no record is pending returns
\* success, having dispatched nothing, marked nothing and created no
\* outbound client.
C19_EmptyCycleIsNoOp ==
    [][\A t \in Tasks : EmptyFetchStep(t) =>
          task'[t].outcome = "ok" /\ NothingDone(t)]_vars

\* C19 (amended): such a cycle returns success, or the error of the fetch
\* if the fetch itself failed, and in both cases it has dispatched nothing,
\* marked nothing and created no outbound client.
C19_EmptyCycleIsNoOpUnlessFetchFailed ==
    [][\A t \in Tasks : EmptyFetchStep(t) =>
          task'[t].outcome \in {"ok", "fetch_err"} /\ NothingDone(t)]_vars

\* the periodic cycle has returned success on an empty queue before any
\* outbound client exists, and the loop waits for the next tick
C19_Witness ==
    /\ task[Periodic].pc = "tick" /\ task[Periodic].outcome = "ok"
    /\ task[Periodic].pending_data = <<>>
    /\ db = {} /\ client = "none" /\ conns = 0 /\ chan = <<>>

Structural(r) ==
    Trim(r.device_id) # "" /\ Trim(r.location) # "" /\ r.metrics_count >= 1

\* C21: every record in the queue satisfies the structural constraints: it
\* has at least one metric and a device id and a location that are not
\* empty after trimming, whichever adapter appended it.
C21_InvalidNeverAppended == \A r \in db : Structural(r)

\* C22: no step appends more than the batch limit of records, whichever
\* adapter takes it.
C22_BatchWithinLimit == [][Cardinality(db' \ db) <= MaxBatchLen]_vars

\* the broker adapter has stored the readings of a message in this step
MqttStored == SlotFree("mqtt") /\ call'["mqtt"].pc = "ack"

\* C23: every record the broker adapter stores has the device of the
\* message's topic as its header device id.
C23_DeviceFromTopic ==
    [][MqttStored => \A r \in db' \ db : r.device_id = TopicDevice]_vars

\* the step of the broker adapter on a payload that does not parse, on either
\* topic (the size, the reading and the insert are not reached)
MalformedStep == \E kind \in Kinds : MqttIngest(kind, 1, FALSE, GoodReading, TRUE)

\* C24: a message of the broker adapter whose payload does not parse ends
\* with the error at once: the queue and the ids handed out are as before,
\* no request went to the outbound client, no sync task was spawned, and no
\* acknowledgment or pending count is left to do for it.
C24_MalformedDropped ==
    [][MalformedStep =>
           /\ db' = db /\ nextId' = nextId
           /\ task' = task /\ chan' = chan
           /\ call'["mqtt"] = Ended("error")]_vars

\* the first message of the broker adapter was dropped before anything was
\* processed
C24_Witness ==
    /\ call["mqtt"].pc = "error"
    /\ nextId = 1 /\ db = {}
    /\ \A t \in Triggered : task[t].pc = "unspawned"

\* C25: a failed publish of the acknowledgment leaves the queue as it is
\* and takes the handler on to the pending count; a call whose
\* acknowledgment failed and whose count succeeds reports success, and it
\* spawns a sync task exactly if the count has reached the batch size.
C25_AckFailureNotEscalated ==
    [][/\ MqttAck(FALSE) => (db' = db /\ call'["mqtt"].pc = "count")
       /\ (~call["mqtt"].acked /\ CountSpawn("mqtt", TRUE)) =>
              /\ call'["mqtt"].pc = "success"
              /\ db' = db
              /\ Cardinality(SpawnedInStep) =
                     IF count_pending_sync(db) >= BatchSize THEN 1 ELSE 0]_vars

\* the acknowledgment of a message has failed, its records are stored and
\* the pending count, which has reached the batch size, is still to be read
C25_Witness ==
    /\ call["mqtt"].pc = "count" /\ ~call["mqtt"].acked
    /\ count_pending_sync(db) >= BatchSize

\* C26: when the request/response adapter has returned a server error for
\* the only call that has reached the queue so far, the queue holds no
\* record.
C26_ErrorMeansNotStored ==
    (call["http"].pc = "server_error" /\ call["mqtt"].pc = "idle" /\ nextId = 2)
        => db = {}

\* ---------------------------------------------------- lifecycle claims
\* one of the two long-running tasks of bootstrap has finished
LongTaskDone == proc.http = "done" \/ proc.mqtt = "done"
Exited == proc.main = "exited"

\* C27: the program has exited only if the listener or the broker loop has
\* finished (whatever the periodic task and the triggered cycles have
\* done), and once one of the two has finished the program exits.
C27_ExitsWhenEitherTaskEnds ==
    /\ [](Exited => LongTaskDone)
    /\ LongTaskDone ~> Exited

\* the program has exited on the end of the broker loop alone, after a
\* triggered cycle had synced a record and returned without ending it (the
\* periodic task has not taken its first step)
C27_Witness ==
    /\ Exited
    /\ proc.mqtt = "done" /\ proc.http = "running"
    /\ task[Periodic].pc = "start"
    /\ \A t \in Triggered : task[t].pc = "unspawned"
    /\ \E r \in db : r.synced

\* --------------------------------------------------- enrichment claims
\* how many metrics of a list satisfy a condition
NanCount(metrics) == Cardinality({i \in 1..Len(metrics) : metrics[i].value = NaN})
InfCount(metrics) ==
    Cardinality({i \in 1..Len(metrics) : metrics[i].value \in {PosInf, NegInf}})
Bit(b) == IF b THEN 1 ELSE 0
Max0(x) == IF x < 0 THEN 0 ELSE x

\* the issue conditions a reading meets, with the anomaly flag it was given
Conditions(input, out) ==
    [empty |-> Bit(input.metrics = <<>>),
     anomaly |-> Bit(out.computed.is_anomaly),
     nan |-> NanCount(input.metrics),
     inf |-> InfCount(input.metrics),
     blank |-> Bit(input.location \in {"", " "})]

\* the reading meets every condition at least as often as the other
AtLeast(c, d) ==
    /\ c.empty >= d.empty /\ c.anomaly >= d.anomaly /\ c.nan >= d.nan
    /\ c.inf >= d.inf /\ c.blank >= d.blank

\* the readings that differ from input by one more metric or in the location
Neighbours(input) ==
    {[input EXCEPT !.location = l] : l \in Locations}
        \cup (IF Len(input.metrics) < MaxMetrics
              THEN {[input EXCEPT !.metrics = Append(@, m)] : m \in SpecialMetrics}
              ELSE {})

\* C28: the quality score of the reading processed is 100 less 50 for an
\* empty metric list, 25 for the anomaly flag, 30 for each NaN and each
\* infinite metric and 10 for a blank location, and 0 if that is negative;
\* it is in 0..100; and a reading that differs by one more metric or in the
\* location and meets every issue condition at least as often does not score
\* higher.
C28_QualityScore ==
    edge.called =>
        LET c == Conditions(edge.input, edge.out)
            score == edge.out.quality.score
        IN /\ score = Max0(100 - 50 * c.empty - 25 * c.anomaly - 30 * c.nan
                                - 30 * c.inf - 10 * c.blank)
           /\ score \in 0..100
           /\ \A other \in Neighbours(edge.input) :
                  LET o == process_reading(other)
                  IN AtLeast(Conditions(other, o), c) => o.quality.score <= score

\* a reading whose deductions exceed 100 has been processed
C28_Witness ==
    /\ edge.called
    /\ NanCount(edge.input.metrics) = 3
    /\ edge.input.location = " "
    /\ edge.out.quality.score = 0

\* names of a temperature and of a humidity metric, in any case
TemperatureNames == {"Temperature", "temperature"}
HumidityNames == {"Humidity", "humedad"}
HasMetric(metrics, names) == \E i \in 1..Len(metrics) : metrics[i].measurement \in names

\* C29: heat index, dew point and comfort level of the reading processed
\* are all present or all absent, and present exactly if the reading has a
\* temperature metric and a humidity metric.
C29_DerivedAllOrNone ==
    edge.called =>
        LET c == edge.out.computed
            present == HasMetric(edge.input.metrics, TemperatureNames)
                           /\ HasMetric(edge.input.metrics, HumidityNames)
        IN /\ c.heat_index = c.dew_point /\ c.dew_point = c.comfort_level
           /\ c.heat_index = "Some" <=> present

\* the three values are present for a reading that names its metrics
\* Temperature and humedad, the humidity first
C29_Witness ==
    /\ edge.called
    /\ Len(edge.input.metrics) = 2
    /\ edge.input.metrics[1].measurement = "humedad"
    /\ edge.input.metrics[2].measurement = "Temperature"
    /\ edge.out.computed.heat_index = "Some"

\* a rule of the anomaly detection holds for the metric
RuleHolds(m) ==
    \/ m.measurement \in TemperatureNames /\ (Lt(m.value, -10) \/ Gt(m.value, 50))
    \/ m.measurement \in HumidityNames /\ (Lt(m.value, 10) \/ Gt(m.value, 95))
    \/ m.value \in {NaN, PosInf, NegInf}
    \/ m.measurement = "Distancia" /\ (Lt(m.value, 0) \/ Gt(m.value, 10000))
    \/ m.measurement = "voltage" /\ (Lt(m.value, 0) \/ Gt(m.value, 50))
    \/ m.measurement = "pressure" /\ AbsGt(m.value, 10000)

\* C30: the anomaly flag of the reading processed is true exactly if a rule
\* holds for one of its metrics, wherever in the list that metric is.
C30_AnomalyIffSomeRule ==
    edge.called =>
        (edge.out.computed.is_anomaly
            <=> \E i \in 1..Len(edge.input.metrics) : RuleHolds(edge.input.metrics[i]))

\* ------------------------------------------------- sync bookkeeping claims
\* C33: no step changes the sync-attempt counter or the last-attempt
\* timestamp of a row that stays in the table.
C33_SyncFieldsInert ==
    [][\A r \in db : \A q \in db' :
           r.id = q.id =>
               /\ q.sync_attempts = r.sync_attempts
               /\ q.last_sync_attempt = r.last_sync_attempt]_vars

\* C34: in the program without failures, where ingestion ends when the ids
\* run out, the queue is eventually without a pending record and stays so.
C34_PendingEventuallyDrained == <>[](PendingRows(db) = {})

\* C35: every stored row converts back to a record, so get_pending_sync
\* does not fail on what insert_reading or insert_batch stored.
C35_StoredReadsBack == \A r \in db : row_to_processed_data(r).ok

\* ------------------------------------------------------ broker loop claims
\* C36: when the processing of a broker message has ended, with an error,
\* ignored or in success, the loop can take the next message, and when the
\* loop sleeps after an event-loop error it can wake and poll again.
C36_LoopGoesOn ==
    /\ call["mqtt"].pc \in Responses \cup {"idle"} =>
           (ENABLED MalformedStep /\ ENABLED MqttSkip /\ ENABLED MqttPollError)
    /\ call["mqtt"].pc = "sleep" => ENABLED MqttSleepDone

\* a message of the broker adapter has failed in storage, after a reading
\* was processed, and the loop is back at its poll
C36_Witness ==
    /\ call["mqtt"].pc = "error"
    /\ nextId > 1

\* C37: on the broker adapter the handler reaches the publish of the
\* acknowledgment only in a step that has stored every record of the message,
\* an acknowledgment goes out only from that position, and a message whose
\* insert failed ends in an error without one.
C37_AckOnlyAfterPersisted ==
    [][/\ (call'["mqtt"].pc = "ack" /\ call["mqtt"].pc # "ack") =>
              \A i \in nextId..(nextId' - 1) : \E r \in db' : r.id = i /\ ~r.synced
       /\ (call'["mqtt"].acked /\ ~call["mqtt"].acked) => call["mqtt"].pc = "ack"
       /\ (call'["mqtt"] # call["mqtt"] /\ nextId' > nextId /\ db' = db) =>
              (call'["mqtt"].pc = "error" /\ ~call'["mqtt"].acked)]_vars

\* the acknowledgment of a whole batch went out, the batch is stored
C37_Witness ==
    /\ call["mqtt"].acked
    /\ nextId = MaxBatchLen + 1
    /\ Cardinality(db) = MaxBatchLen

first_at_80 == F32(0, 13981013, -19)

\* the regression applied to a reading, in Celsius
polynomial(temp_c, humidity) == to_celsius(rothfusz(to_fahrenheit(temp_c), humidity))

\* C31 (as written): below the threshold the heat index is the raw
\* temperature, at or above it it is the result of the polynomial and
\* differs from the raw temperature.
C31_PolynomialDiffers ==
    edge.called =>
        IF f32_lt(edge.temp, first_at_80)
        THEN edge.heat_index = edge.temp
        ELSE /\ edge.heat_index = polynomial(edge.temp, edge.hum)
             /\ ~f32_eq(edge.heat_index, edge.temp)

\* C31 (amended): below the threshold the heat index is the raw temperature
\* exactly, at or above it (and for a temperature that is NaN) it is the
\* result of the polynomial, which is above the raw temperature in humid
\* air, below it in dry air and can be equal to it in between.
C31_HeatIndexByThreshold ==
    edge.called =>
        IF f32_lt(edge.temp, first_at_80)
        THEN edge.heat_index = edge.temp
        ELSE /\ edge.heat_index = polynomial(edge.temp, edge.hum)
             /\ (edge.temp = whole(35) /\ edge.hum = whole(70)) =>
                    f32_lt(edge.temp, edge.heat_index)
             /\ (edge.temp = whole(35) /\ edge.hum = whole(10)) =>
                    f32_lt(edge.heat_index, edge.temp)

\* at 27 degrees the polynomial was applied and its result is 27 degrees
C31_Witness ==
    /\ edge.called
    /\ edge.temp = whole(27)
    /\ ~below_threshold(to_fahrenheit(edge.temp))
    /\ f32_eq(edge.heat_index, edge.temp)

finite(x) == x.k = "f32"

\* C32: the comfort level of a finite temperature and a finite humidity is
\* a number from 0 to 100.
C32_ComfortInRange ==
    (edge.called /\ finite(edge.temp) /\ finite(edge.hum)) =>
        /\ f32_le(whole(0), edge.comfort_level)
        /\ f32_le(edge.comfort_level, whole(100))

\* the comfort level of the largest finite temperature and the lowest
\* finite humidity: the temperature score overflows, the level is 0
C32_Witness ==
    /\ edge.called
    /\ edge.temp = F32(0, 2 ^ 24 - 1, 104)
    /\ edge.hum = F32(1, 2 ^ 24 - 1, 104)
    /\ edge.comfort_level = whole(0)
    /\ f32_mul(f32_abs(f32_sub(edge.temp, whole(22))), whole(5)) = PosInf

====
